---- MODULE Spec2Model ----
(***************************************************************************)
(* The calendar screen of JobAppTrackerMobile (CalendarScreen, kept in     *)
(* src/src/screens/DashboardScreen.tsx from line 485 on): the month grid,  *)
(* the per-day filter of events and tasks, month navigation, day           *)
(* selection, the calendar loads and the add-event request.                *)
(*                                                                         *)
(* Strings of the program are sequences of one-character strings, so that  *)
(* formatting (String(n), padStart) and startsWith are computed.  A Date   *)
(* is its local calendar day [y, m, d] with the month zero-based as in     *)
(* JavaScript; every Date the screen makes is a local midnight.            *)
(***************************************************************************)
EXTENDS Integers, Sequences, FiniteSets, TLC

VARIABLES
    currentDate,     \* useState(new Date(2025, 7, 1))
    selectedDate,    \* useState<Date | null>(null)
    events,          \* useState<CalendarEvent[]>([])
    tasks,           \* useState<Task[]>([])
    loading,         \* useState(true)
    showEventModal,  \* useState(false)
    newEventTitle,   \* useState('')
    loads,           \* the calls of loadCalendarData that have not finished
    creates,         \* the calls of handleAddEvent awaiting calendarEventsApi.create
    tz,              \* the device's time zone: hours its local time is ahead of UTC
    alert,           \* the message of the Alert.alert dialog on the screen
    logged,          \* what loadCalendarData wrote last to the console
    crashed          \* a render has thrown: the screen is gone

vars == <<currentDate, selectedDate, events, tasks, loading, showEventModal,
          newEventTitle, loads, creates, tz, alert, logged, crashed>>

-----------------------------------------------------------------------------
(* Bounds of the model.                                                    *)

\* Months the grid specification navigates back and forward from August 2025.
GridMonthsBack == 18
GridMonthsFwd == 6
\* Months the screen specification navigates back and forward.
MonthsBack == 0
MonthsFwd == 1
\* Months the filter specification navigates back and forward.
FilterMonthsBack == 1
FilterMonthsFwd == 1
\* Months the agenda specification navigates back and forward.
AgendaMonthsBack == 0
AgendaMonthsFwd == 1
\* Months the selection specification navigates back and forward.
SelectMonthsBack == 6
SelectMonthsFwd == 1
\* Months the load specification navigates back and forward.
LoadMonthsBack == 0
LoadMonthsFwd == 1
\* Calls of loadCalendarData, and create requests, in flight at a time.
MaxLoads == 2
MaxCreates == 1
\* Create requests in flight at a time in the add-event specification.
MaxPresses == 2

-----------------------------------------------------------------------------
(* JavaScript's Date, on local calendar days.                              *)

\* selectedDate === null: no day of a month is 0.
NoDate == [y |-> 0, m |-> 0, d |-> 0]

\* Day number of 1 January of year y, counted from 1 January 1970.
DayFromYear(y) ==
    365 * (y - 1970) + ((y - 1969) \div 4) - ((y - 1901) \div 100)
        + ((y - 1601) \div 400)

DaysInYear(y) == DayFromYear(y + 1) - DayFromYear(y)

\* Days of the year before month mn (0..11).
DaysBeforeMonth(y, mn) ==
    LET leap == IF DaysInYear(y) = 366 THEN 1 ELSE 0
    IN  CASE mn = 0 -> 0
          [] mn = 1 -> 31
          [] mn = 2 -> 59 + leap
          [] mn = 3 -> 90 + leap
          [] mn = 4 -> 120 + leap
          [] mn = 5 -> 151 + leap
          [] mn = 6 -> 181 + leap
          [] mn = 7 -> 212 + leap
          [] mn = 8 -> 243 + leap
          [] mn = 9 -> 273 + leap
          [] mn = 10 -> 304 + leap
          [] OTHER -> 334 + leap

\* MakeDay of ECMAScript: any month and day roll over into the neighbours.
MakeDay(year, month, date) ==
    LET ym == year + (month \div 12)
        mn == month % 12
    IN  DayFromYear(ym) + DaysBeforeMonth(ym, mn) + date - 1

YearFromDay(t) ==
    LET y0 == 1970 + (t \div 365)
    IN  CHOOSE y \in (y0 - 2)..(y0 + 2) :
            DayFromYear(y) <= t /\ t < DayFromYear(y + 1)

MonthFromDay(t) ==
    LET y == YearFromDay(t)
    IN  CHOOSE mn \in 0..11 :
            /\ DayFromYear(y) + DaysBeforeMonth(y, mn) <= t
            /\ \/ mn = 11
               \/ t < DayFromYear(y) + DaysBeforeMonth(y, mn + 1)

\* new Date(year, month, date): the local day the arguments roll over to.
NewDate(year, month, date) ==
    LET t == MakeDay(year, month, date)
        y == YearFromDay(t)
        mn == MonthFromDay(t)
    IN  [y |-> y, m |-> mn, d |-> t - (DayFromYear(y) + DaysBeforeMonth(y, mn)) + 1]

\* Date.prototype.getDay: 1 January 1970 was a Thursday.
GetDay(date) == (MakeDay(date.y, date.m, date.d) + 4) % 7

\* Date.prototype.setMonth on a copy: the day of the month is kept and rolls over.
SetMonth(date, month) == NewDate(date.y, month, date.d)

-----------------------------------------------------------------------------
(* Strings.                                                                *)

DigitChar(n) ==
    CASE n = 0 -> "0" [] n = 1 -> "1" [] n = 2 -> "2" [] n = 3 -> "3"
      [] n = 4 -> "4" [] n = 5 -> "5" [] n = 6 -> "6" [] n = 7 -> "7"
      [] n = 8 -> "8" [] OTHER -> "9"

RECURSIVE NatToString(_)
\* String(n) and `${n}` of a non-negative integer.
NatToString(n) ==
    IF n < 10 THEN <<DigitChar(n)>>
    ELSE NatToString(n \div 10) \o <<DigitChar(n % 10)>>

RECURSIVE PadStart(_, _, _)
\* String.prototype.padStart with a one-character filler.
PadStart(s, targetLength, fill) ==
    IF Len(s) >= targetLength THEN s
    ELSE PadStart(<<fill>> \o s, targetLength, fill)

\* String.prototype.startsWith.
StartsWith(s, prefix) ==
    /\ Len(s) >= Len(prefix)
    /\ SubSeq(s, 1, Len(prefix)) = prefix

-----------------------------------------------------------------------------
(* Values the backend sends.  A date field holds a string, or is missing,  *)
(* or null, or (the types are not checked at run time) a number.           *)

Str(chars) == [k |-> "str", s |-> chars]
Missing == [k |-> "undefined", s |-> <<>>]
Null == [k |-> "null", s |-> <<>>]
Num == [k |-> "num", s |-> <<>>]

\* An array, or undefined where an array is expected.
Array(items) == [def |-> TRUE, items |-> items]
Undefined == [def |-> FALSE, items |-> <<>>]

CalendarEvent(id, start) == [id |-> id, type |-> "event", date |-> start]
Task(id, due) == [id |-> id, type |-> "task", date |-> due]

\* value?.startsWith(dateString) throws a TypeError for a value that is neither
\* missing, nor null, nor a string: it has no startsWith method to call.
StartsWithThrows(value) == value.k \notin {"str", "undefined", "null"}

\* value?.startsWith(dateString), read as a condition: undefined (false) for a
\* missing or null value, the string's answer for a string.
OptStartsWith(value, dateString) ==
    value.k = "str" /\ StartsWith(value.s, dateString)

\* OrEmpty without its fallback: the collection as it is.
OrEmptyNoFallback(collection) == collection

\* (collection || []): an undefined collection is read as the empty array.
OrEmpty(collection) == IF collection.def THEN collection ELSE Array(<<>>)

\* (collection || []).filter(item => item?.date?.startsWith(dateString)) throws
\* when filter is called on undefined or its callback throws on an item.
FilterThrows(collection) ==
    LET arr == OrEmpty(collection)
    IN  \/ ~arr.def
        \/ \E i \in 1..Len(arr.items) : StartsWithThrows(arr.items[i].date)

\* The array the filter returns when it does not throw.
FilterByDate(collection, dateString) ==
    SelectSeq(OrEmpty(collection).items,
              LAMBDA item : OptStartsWith(item.date, dateString))

\* DateString without padStart: `${year}-${month}-${day}`.
DateStringUnpadded(year, month, day) ==
    NatToString(year) \o <<"-">> \o NatToString(month) \o <<"-">> \o NatToString(day)

\* The key `${year}-${String(month).padStart(2, '0')}-${String(day).padStart(2, '0')}`.
DateString(year, month, day) ==
    NatToString(year) \o <<"-">> \o PadStart(NatToString(month), 2, "0")
        \o <<"-">> \o PadStart(NatToString(day), 2, "0")

\* getEventsForDate and getEventsForSelectedDate throw when a filter does.
GetEventsThrows(evs, tks) == FilterThrows(evs) \/ FilterThrows(tks)

\* getEventsForDate(date): the key is made of the displayed year and month.
GetEventsForDate(evs, tks, currentYear, currentMonth, date) ==
    LET dateString == DateString(currentYear, currentMonth + 1, date)
    IN  [events |-> FilterByDate(evs, dateString),
         tasks |-> FilterByDate(tks, dateString)]

\* getEventsForSelectedDate(): the key is made of the selected date.
GetEventsForSelectedDate(evs, tks, selected) ==
    IF selected = NoDate THEN [events |-> <<>>, tasks |-> <<>>]
    ELSE LET dateString == DateString(selected.y, selected.m + 1, selected.d)
         IN  [events |-> FilterByDate(evs, dateString),
              tasks |-> FilterByDate(tks, dateString)]

-----------------------------------------------------------------------------
(* The month grid.                                                         *)

\* GetDaysInMonth with day 0 of the month itself: the length of the month before.
GetDaysInMonthOfMonthBefore(year, month) == NewDate(year, month, 0).d

GetDaysInMonth(year, month) == NewDate(year, month + 1, 0).d

GetFirstDayOfMonth(year, month) == GetDay(NewDate(year, month, 1))

\* 6 rows * 7 days.
GridSize == 42

\* LeadingDays with the loop counting up: the days descend.
LeadingDaysDescending(firstDayOfMonth, daysInPrevMonth) ==
    [k \in 1..firstDayOfMonth |-> daysInPrevMonth - (k - 1)]

\* for (i = firstDayOfMonth - 1; i >= 0; i--) day = daysInPrevMonth - i
LeadingDays(firstDayOfMonth, daysInPrevMonth) ==
    [k \in 1..firstDayOfMonth |-> daysInPrevMonth - (firstDayOfMonth - k)]

\* MonthDays with day < daysInMonth: the last day is left out.
MonthDaysWithoutLast(daysInMonth) == [k \in 1..(daysInMonth - 1) |-> k]

\* for (day = 1; day <= daysInMonth; day++)
MonthDays(daysInMonth) == [k \in 1..daysInMonth |-> k]

\* TrailingDays that fills five rows: 35 - calendarDays.length.
TrailingDaysFiveRows(length) == [k \in 1..(5 * 7 - length) |-> k]

\* for (day = 1; day <= 42 - calendarDays.length; day++)
TrailingDays(length) == [k \in 1..(GridSize - length) |-> k]

\* renderCalendar(): the calls renderCalendarDay(day, isCurrentMonth) it makes,
\* in order.
CalendarDays(currentYear, currentMonth) ==
    LET daysInMonth == GetDaysInMonth(currentYear, currentMonth)
        firstDayOfMonth == GetFirstDayOfMonth(currentYear, currentMonth)
        daysInPrevMonth == GetDaysInMonth(currentYear, currentMonth - 1)
        leading == LeadingDays(firstDayOfMonth, daysInPrevMonth)
        body == MonthDays(daysInMonth)
        trailing == TrailingDays(Len(leading) + Len(body))
    IN  [k \in 1..Len(leading) |-> [day |-> leading[k], isCurrentMonth |-> FALSE]]
            \o [k \in 1..Len(body) |-> [day |-> body[k], isCurrentMonth |-> TRUE]]
            \o [k \in 1..Len(trailing) |-> [day |-> trailing[k], isCurrentMonth |-> FALSE]]

\* renderCalendarDay(day, isCurrentMonth): what the cell shows.
RenderCalendarDay(day, isCurrentMonth, evs, tks, currentYear, currentMonth, selected) ==
    LET found == GetEventsForDate(evs, tks, currentYear, currentMonth, day)
    IN  [day |-> day,
         isCurrentMonth |-> isCurrentMonth,
         disabled |-> ~isCurrentMonth,
         events |-> found.events,
         tasks |-> found.tasks,
         isSelected |-> /\ selected # NoDate
                        /\ selected.d = day
                        /\ selected.m = currentMonth
                        /\ selected.y = currentYear]

\* renderCalendar(): the cells in the order they are pushed.
RenderCalendar(evs, tks, currentYear, currentMonth, selected) ==
    LET days == CalendarDays(currentYear, currentMonth)
    IN  [k \in 1..Len(days) |->
            RenderCalendarDay(days[k].day, days[k].isCurrentMonth, evs, tks,
                              currentYear, currentMonth, selected)]

\* renderCalendar() throws when a call of renderCalendarDay does: each call
\* filters the same collections.
RenderCalendarThrows(evs, tks, currentYear, currentMonth) ==
    /\ GetEventsThrows(evs, tks)
    /\ CalendarDays(currentYear, currentMonth) # <<>>

-----------------------------------------------------------------------------
(* The agenda of the selected day.                                         *)

IsDigit(c) == c \in {"0", "1", "2", "3", "4", "5", "6", "7", "8", "9"}

DigitValue(c) ==
    CASE c = "0" -> 0 [] c = "1" -> 1 [] c = "2" -> 2 [] c = "3" -> 3
      [] c = "4" -> 4 [] c = "5" -> 5 [] c = "6" -> 6 [] c = "7" -> 7
      [] c = "8" -> 8 [] OTHER -> 9

\* The number written by the digits s[from..to], or -1 when one is no digit.
Digits(s, from, to) ==
    IF \E i \in from..to : ~IsDigit(s[i]) THEN -1
    ELSE LET RECURSIVE Value(_)
             Value(i) == IF i < from THEN 0
                         ELSE 10 * Value(i - 1) + DigitValue(s[i])
         IN  Value(to)

NaN == [nan |-> TRUE, sec |-> 0, ms |-> 0]

\* new Date(value).getTime() for a string in the ISO format of ECMAScript: the
\* time in seconds and milliseconds since 1970 UTC.  A date without a time is
\* UTC midnight; a date with a time and no Z is local time; any other string is
\* an Invalid Date, whose time is NaN.
GetTime(value, zone) ==
    IF value.k # "str" THEN NaN
    ELSE
    LET s == value.s
        n == Len(s)
        dateOk == /\ n >= 10
                  /\ s[5] = "-" /\ s[8] = "-"
                  /\ Digits(s, 1, 4) >= 0
                  /\ Digits(s, 6, 7) \in 1..12
                  /\ Digits(s, 9, 10) \in 1..31
        timeOk == /\ n >= 19
                  /\ s[11] = "T" /\ s[14] = ":" /\ s[17] = ":"
                  /\ Digits(s, 12, 13) \in 0..23
                  /\ Digits(s, 15, 16) \in 0..59
                  /\ Digits(s, 18, 19) \in 0..59
        fraction == n >= 23 /\ s[20] = "." /\ Digits(s, 21, 23) >= 0
        afterTime == IF fraction THEN 24 ELSE 20
        utc == n = afterTime /\ s[n] = "Z"
        day == MakeDay(Digits(s, 1, 4), Digits(s, 6, 7) - 1, Digits(s, 9, 10))
    IN  IF dateOk /\ n = 10 THEN [nan |-> FALSE, sec |-> day * 86400, ms |-> 0]
        ELSE IF dateOk /\ timeOk /\ (n = afterTime - 1 \/ utc)
        THEN [nan |-> FALSE,
              sec |-> day * 86400 + Digits(s, 12, 13) * 3600
                        + Digits(s, 15, 16) * 60 + Digits(s, 18, 19)
                        - (IF utc THEN 0 ELSE zone * 3600),
              ms |-> IF fraction THEN Digits(s, 21, 23) ELSE 0]
        ELSE NaN

\* The comparator (a, b) => aTime - bTime, as sort reads it: negative, zero or
\* positive, and NaN read as zero.
CompareItems(a, b, zone) ==
    LET aTime == GetTime(a.date, zone)
        bTime == GetTime(b.date, zone)
    IN  IF aTime.nan \/ bTime.nan THEN 0
        ELSE IF aTime.sec # bTime.sec THEN aTime.sec - bTime.sec
        ELSE aTime.ms - bTime.ms

\* SortItems placing an item before the first item that does not compare less
\* than it: items that compare equal change places.
RECURSIVE SortItemsBeforeEqual(_, _)
SortItemsBeforeEqual(items, zone) ==
    IF Len(items) <= 1 THEN items
    ELSE LET sorted == SortItemsBeforeEqual(SubSeq(items, 1, Len(items) - 1), zone)
             x == items[Len(items)]
             after == {i \in 1..Len(sorted) : CompareItems(sorted[i], x, zone) >= 0}
             at == IF after = {} THEN Len(sorted) + 1
                   ELSE CHOOSE i \in after : \A j \in after : i <= j
         IN  SubSeq(sorted, 1, at - 1) \o <<x>> \o SubSeq(sorted, at, Len(sorted))

\* Array.prototype.sort is stable: an item is placed after the items that do
\* not compare greater than it.
RECURSIVE SortItems(_, _)
SortItems(items, zone) ==
    IF Len(items) <= 1 THEN items
    ELSE LET sorted == SortItems(SubSeq(items, 1, Len(items) - 1), zone)
             x == items[Len(items)]
             after == {i \in 1..Len(sorted) : CompareItems(sorted[i], x, zone) > 0}
             at == IF after = {} THEN Len(sorted) + 1
                   ELSE CHOOSE i \in after : \A j \in after : i <= j
         IN  SubSeq(sorted, 1, at - 1) \o <<x>> \o SubSeq(sorted, at, Len(sorted))

\* One step of the insertion from the end: the item moves towards the front
\* while it compares less than the item before it.
InsertFromEnd(sorted, x, zone) ==
    LET stops == {i \in 1..Len(sorted) : CompareItems(x, sorted[i], zone) >= 0}
        at == IF stops = {} THEN 1
              ELSE 1 + CHOOSE i \in stops : \A j \in stops : i >= j
    IN  SubSeq(sorted, 1, at - 1) \o <<x>> \o SubSeq(sorted, at, Len(sorted))

\* Array.prototype.sort as an insertion sort from the end.
RECURSIVE SortItemsFromEnd(_, _)
SortItemsFromEnd(items, zone) ==
    IF Len(items) <= 1 THEN items
    ELSE InsertFromEnd(SortItemsFromEnd(SubSeq(items, 1, Len(items) - 1), zone),
                       items[Len(items)], zone)

\* The orders sort may leave the items in.  With a comparator that is a
\* consistent order every stable sort gives the same one; with an item whose
\* time is NaN the comparator is not one, and the order depends on the
\* algorithm of the engine.
SortOutcomes(items, zone) == {SortItems(items, zone), SortItemsFromEnd(items, zone)}

\* renderSelectedDayEvents() throws when getEventsForSelectedDate does; with no
\* selection it returns before the call.
RenderSelectedDayEventsThrows(evs, tks, selected) ==
    selected # NoDate /\ GetEventsThrows(evs, tks)

\* RenderSelectedDayEvents without the view of a day that has no item.
RenderSelectedDayEventsWithoutEmptyView(evs, tks, selected, zone) ==
    IF selected = NoDate THEN [view |-> "noSelection", allItems |-> <<>>]
    ELSE LET found == GetEventsForSelectedDate(evs, tks, selected)
         IN  [view |-> "eventsList",
              allItems |-> SortItems(found.events \o found.tasks, zone)]

\* renderSelectedDayEvents(): which of its three views, and the items listed.
RenderSelectedDayEvents(evs, tks, selected, zone) ==
    IF selected = NoDate THEN [view |-> "noSelection", allItems |-> <<>>]
    ELSE LET found == GetEventsForSelectedDate(evs, tks, selected)
             allItems == SortItems(found.events \o found.tasks, zone)
         IN  IF Len(allItems) = 0 THEN [view |-> "emptyDay", allItems |-> allItems]
             ELSE [view |-> "eventsList", allItems |-> allItems]

\* The lists of items renderSelectedDayEvents() may show for a selected day.
AgendaOutcomes(evs, tks, selected, zone) ==
    LET found == GetEventsForSelectedDate(evs, tks, selected)
    IN  SortOutcomes(found.events \o found.tasks, zone)

\* RenderLeaves with the sort called on the events array itself.
RenderLeavesSortingInPlace(evs, tks, date, selected, zone) ==
    LET sorted == SortItemsFromEnd(evs, zone)
    IN  [events |-> sorted, tasks |-> tks, currentDate |-> date,
         selectedDate |-> selected, allItems |-> sorted]

\* What a render leaves of the state it reads, and the list it shows.  filter
\* returns new arrays, the spread of their maps is a new array, and sort, which
\* sorts in place, is called on that one; no setter is called.
RenderLeaves(evs, tks, date, selected, zone) ==
    LET found == GetEventsForSelectedDate(Array(evs), Array(tks), selected)
        allItems == found.events \o found.tasks
        sorted == IF selected = NoDate THEN <<>> ELSE SortItemsFromEnd(allItems, zone)
    IN  [events |-> evs, tasks |-> tks, currentDate |-> date,
         selectedDate |-> selected, allItems |-> sorted]

\* The body of CalendarScreen: the loading view while loading; otherwise the grid
\* and the selected day's panel are computed, and an error thrown by either is
\* thrown out of the render.
RenderThrows(isLoading, evs, tks, date, selected) ==
    /\ ~isLoading
    /\ \/ RenderCalendarThrows(Array(evs), Array(tks), date.y, date.m)
       \/ RenderSelectedDayEventsThrows(Array(evs), Array(tks), selected)

-----------------------------------------------------------------------------
(* What the backend may answer.                                            *)

DateAug02 == <<"2", "0", "2", "5", "-", "0", "8", "-", "0", "2">>
DateAug31 == <<"2", "0", "2", "5", "-", "0", "8", "-", "3", "1">>
DateSep30 == <<"2", "0", "2", "5", "-", "0", "9", "-", "3", "0">>
Time10Z == <<"T", "1", "0", ":", "0", "0", ":", "0", "0", "Z">>
Time14 == <<"T", "1", "4", ":", "0", "0", ":", "0", "0">>
\* A date that is not in the ISO format.
Slashed == <<"0", "8", "/", "0", "2", "/", "2", "0", "2", "5">>

AugustEvents ==
    << CalendarEvent(1, Str(DateAug02 \o Time10Z)),
       CalendarEvent(2, Str(DateAug31 \o Time14)),
       CalendarEvent(3, Missing),
       CalendarEvent(4, Str(Slashed)) >>

WeekEvents ==
    << CalendarEvent(5, Str(DateAug02 \o Time14)),
       CalendarEvent(6, Null),
       CalendarEvent(7, Str(DateSep30 \o Time10Z)) >>

\* An event whose start is a number.
NumberEvents == << CalendarEvent(8, Num) >>

NumberTasks == << Task(4, Num) >>

SomeTasks ==
    << Task(1, Str(DateAug02)), Task(2, Missing), Task(3, Str(DateSep30)) >>

DateAug01 == <<"2", "0", "2", "5", "-", "0", "8", "-", "0", "1">>
DateAug03 == <<"2", "0", "2", "5", "-", "0", "8", "-", "0", "3">>
DateAug04 == <<"2", "0", "2", "5", "-", "0", "8", "-", "0", "4">>
Time00Z == <<"T", "0", "0", ":", "0", "0", ":", "0", "0", "Z">>
Time14Z == <<"T", "1", "4", ":", "0", "0", ":", "0", "0", "Z">>
\* A time that is yet to be announced.
TimeTBA == <<"T", "B", "A">>

\* Events of three days.  2 August: starts that tie with each other and with the
\* tasks of the day.  3 August: one event at 14:00.  4 August: an event whose
\* start has no time that can be parsed, between events that have one.
AgendaEvents ==
    << CalendarEvent(11, Str(DateAug02 \o Time14)),
       CalendarEvent(12, Str(DateAug02 \o Time10Z)),
       CalendarEvent(13, Str(DateAug02 \o Time00Z)),
       CalendarEvent(14, Str(DateAug02 \o Time10Z)),
       CalendarEvent(15, Str(DateAug03 \o Time14)),
       CalendarEvent(16, Str(DateAug04 \o Time14Z)),
       CalendarEvent(17, Str(DateAug04 \o TimeTBA)),
       CalendarEvent(18, Str(DateAug04 \o Time10Z)),
       CalendarEvent(19, Str(DateAug04 \o Time10Z)) >>

AgendaTasks ==
    << Task(11, Str(DateAug02)), Task(12, Str(DateAug02)), Task(13, Str(DateAug03)),
       Task(14, Str(DateAug31)) >>

ArrayData(items) ==
    [kind |-> "array", items |-> items, weeks |-> Undefined, events |-> Undefined]
ObjectData(weeks, evs) ==
    [kind |-> "object", items |-> <<>>, weeks |-> weeks, events |-> evs]
NullData ==
    [kind |-> "null", items |-> <<>>, weeks |-> Undefined, events |-> Undefined]

\* An answer that is a number.
ScalarData ==
    [kind |-> "number", items |-> <<>>, weeks |-> Undefined, events |-> Undefined]

\* A day of a week of the month view: null, or an object that may hold events.
Day(evs) == [isNull |-> FALSE, events |-> evs]
NullDay == [isNull |-> TRUE, events |-> Undefined]

WeeksData ==
    ObjectData(Array(<< << Day(Array(<<WeekEvents[1]>>)), NullDay, Day(Undefined) >>,
                        << Day(Array(<<WeekEvents[2], WeekEvents[3]>>)) >> >>),
               Undefined)

MonthViewResponses ==
    {ArrayData(<<>>), ArrayData(AugustEvents), WeeksData, ArrayData(NumberEvents)}

\* The answers of the screen specification: arrays of events with the fields of
\* CalendarEvent.
TypedMonthViews == {ArrayData(<<>>), ArrayData(AugustEvents)}

TasksResponses == {ArrayData(<<>>), ArrayData(SomeTasks)}

\* The answers of the filter specification: also a task whose due date is a
\* number.
FilterTasksResponses == TasksResponses \cup {ArrayData(NumberTasks)}

\* The answers of the grid specification: no events and no tasks.
EmptyResponses == {ArrayData(<<>>)}

\* The answers of the load specification.  The month view: a flat array, a weeks
\* structure, an object with an events array, and null, an object with
\* neither weeks nor events, a number.  The tasks: an array, and null, an object
\* that wraps the array.
EventsObject == ObjectData(Undefined, Array(AugustEvents))
EmptyObject == ObjectData(Undefined, Undefined)
TasksObject == ObjectData(Undefined, Array(SomeTasks))
ShapedMonthViews ==
    {ArrayData(AugustEvents), WeeksData, EventsObject, NullData, EmptyObject, ScalarData}
ShapedTasksResponses == {ArrayData(SomeTasks), NullData, TasksObject}

\* The answers of the agenda specification.
AgendaMonthViews == {ArrayData(<<>>), ArrayData(AgendaEvents)}
AgendaTasksResponses == {ArrayData(<<>>), ArrayData(AgendaTasks)}

-----------------------------------------------------------------------------
(* loadCalendarData.                                                       *)

RECURSIVE Flat(_)
\* Array.prototype.flat() of an array of arrays.
Flat(arrays) ==
    IF arrays = <<>> THEN <<>> ELSE Head(arrays) \o Flat(Tail(arrays))

\* ExtractEvents that knows the flat array only.
ExtractEventsFlatOnly(eventsData) ==
    IF eventsData.kind = "array" THEN eventsData.items ELSE <<>>

\* The events array loadCalendarData makes of the month view's answer.
ExtractEvents(eventsData) ==
    IF eventsData.kind = "object" /\ eventsData.weeks.def
    THEN LET days == SelectSeq(Flat(eventsData.weeks.items),
                               LAMBDA day : ~day.isNull /\ day.events.def)
         IN  Flat([k \in 1..Len(days) |-> days[k].events.items])
    ELSE IF eventsData.kind = "array" THEN eventsData.items
    ELSE IF eventsData.kind = "object" /\ eventsData.events.def
    THEN eventsData.events.items
    ELSE <<>>

\* ExtractTasks that unwraps the tasks as the events are unwrapped.
ExtractTasksLikeEvents(tasksData) == ExtractEvents(tasksData)

\* Array.isArray(tasksData) ? tasksData : []
ExtractTasks(tasksData) ==
    IF tasksData.kind = "array" THEN tasksData.items ELSE <<>>

\* A call of loadCalendarData by a render that displays (year, month): loading
\* is set, and both requests are sent, the month view for month + 1.  stale: a
\* load started after this one has finished.
Load(year, month) ==
    [year |-> year, month |-> month + 1,
     monthView |-> "pending", tasks |-> "pending", stale |-> FALSE]

Other(request) == IF request = "monthView" THEN "tasks" ELSE "monthView"

\* The sequence without its element i.
Without(seq, i) == SubSeq(seq, 1, i - 1) \o SubSeq(seq, i + 1, Len(seq))

\* The loads in flight once load i has finished: the loads started before it
\* are now older than a finished load.
AfterLoad(i) ==
    Without([j \in 1..Len(loads) |->
                IF j < i THEN [loads[j] EXCEPT !.stale = TRUE] ELSE loads[j]], i)

\* The screen is mounted and its last render did not throw.
Mounted == ~crashed

\* The messages of Alert.alert; NoAlert: no dialog is on the screen.  A dialog
\* raised over another one takes its place in the model.
NoAlert == "none"
LoadFailedAlert == "Failed to load calendar data"
EventAddedAlert == "Event added successfully!"
AddFailedAlert == "Failed to add event"

\* The console after a call of loadCalendarData has finished: its log of the
\* loaded data (with the two answers as they came) or its error.
NoLog == [kind |-> "none", eventsData |-> NullData, tasksData |-> NullData]
LoadedLog(eventsData, tasksData) ==
    [kind |-> "loaded", eventsData |-> eventsData, tasksData |-> tasksData]
ErrorLog == [kind |-> "error", eventsData |-> NullData, tasksData |-> NullData]

\* One request of a load is answered while the other is still awaited:
\* Promise.all waits.
RequestResolves(i, request) ==
    /\ Mounted
    /\ i \in 1..Len(loads)
    /\ loads[i][request] = "pending"
    /\ loads[i][Other(request)] = "pending"
    /\ loads' = [loads EXCEPT ![i][request] = "resolved"]
    /\ UNCHANGED <<currentDate, selectedDate, events, tasks, loading, showEventModal,
                   newEventTitle, creates, tz, alert, logged, crashed>>

\* The second request of a load is answered: Promise.all resolves, the arrays
\* are extracted and installed, and finally loading is cleared.
LoadSucceeds(i, request, eventsData, tasksData) ==
    /\ Mounted
    /\ i \in 1..Len(loads)
    /\ loads[i][request] = "pending"
    /\ loads[i][Other(request)] = "resolved"
    /\ events' = ExtractEvents(eventsData)
    /\ tasks' = ExtractTasks(tasksData)
    /\ logged' = LoadedLog(eventsData, tasksData)
    /\ loading' = FALSE
    /\ loads' = AfterLoad(i)
    /\ crashed' = RenderThrows(loading', events', tasks', currentDate, selectedDate)
    /\ UNCHANGED <<currentDate, selectedDate, showEventModal, newEventTitle,
                   creates, tz, alert>>

\* LoadFails whose catch clears the selection too.
LoadFailsClearingSelection(i, request) ==
    /\ Mounted
    /\ i \in 1..Len(loads)
    /\ loads[i][request] = "pending"
    /\ logged' = ErrorLog
    /\ alert' = LoadFailedAlert
    /\ events' = <<>>
    /\ tasks' = <<>>
    /\ selectedDate' = NoDate
    /\ loading' = FALSE
    /\ loads' = AfterLoad(i)
    /\ crashed' = RenderThrows(loading', events', tasks', currentDate, selectedDate')
    /\ UNCHANGED <<currentDate, showEventModal, newEventTitle, creates, tz>>

\* LoadFails whose catch leaves the events and the tasks as they are.
LoadFailsKeepingData(i, request) ==
    /\ Mounted
    /\ i \in 1..Len(loads)
    /\ loads[i][request] = "pending"
    /\ logged' = ErrorLog
    /\ alert' = LoadFailedAlert
    /\ loading' = FALSE
    /\ loads' = AfterLoad(i)
    /\ crashed' = RenderThrows(loading', events, tasks, currentDate, selectedDate)
    /\ UNCHANGED <<currentDate, selectedDate, events, tasks, showEventModal,
                   newEventTitle, creates, tz>>

\* A request of a load fails: Promise.all rejects at once, the catch logs the
\* error, raises the alert and installs empty arrays, and finally loading is
\* cleared.
LoadFails(i, request) ==
    /\ Mounted
    /\ i \in 1..Len(loads)
    /\ loads[i][request] = "pending"
    /\ logged' = ErrorLog
    /\ alert' = LoadFailedAlert
    /\ events' = <<>>
    /\ tasks' = <<>>
    /\ loading' = FALSE
    /\ loads' = AfterLoad(i)
    /\ crashed' = RenderThrows(loading', events', tasks', currentDate, selectedDate)
    /\ UNCHANGED <<currentDate, selectedDate, showEventModal, newEventTitle,
                   creates, tz>>

-----------------------------------------------------------------------------
(* The user's actions.  While loading, the screen is the loading view and   *)
(* offers none of them; an open modal covers the grid and the panel, and an *)
(* alert dialog covers everything.                                          *)

\* useState(new Date(2025, 7, 1))
InitialDate == NewDate(2025, 7, 1)

MonthIndex(date) == date.y * 12 + date.m

\* The grid on the screen.
Grid == RenderCalendar(Array(events), Array(tasks), currentDate.y, currentDate.m,
                       selectedDate)

\* The selected day's panel on the screen.
Panel == RenderSelectedDayEvents(Array(events), Array(tasks), selectedDate, tz)

\* The screen shows the grid and the panel, not the loading view.
GridShown == Mounted /\ ~loading

\* The grid, the panel and the modal take presses: no alert dialog is over them.
Interactive == GridShown /\ alert = NoAlert

\* React renders the screen again with the state as it is.
Rerender ==
    /\ Mounted
    /\ \E left \in {RenderLeaves(events, tasks, currentDate, selectedDate, tz)} :
           /\ events' = left.events
           /\ tasks' = left.tasks
           /\ currentDate' = left.currentDate
           /\ selectedDate' = left.selectedDate
    /\ crashed' = RenderThrows(loading, events', tasks', currentDate', selectedDate')
    /\ UNCHANGED <<loading, showEventModal, newEventTitle, loads, creates, tz, alert,
                   logged>>

\* The button of the alert dialog is pressed.
DismissAlert ==
    /\ Mounted
    /\ alert # NoAlert
    /\ alert' = NoAlert
    /\ UNCHANGED <<currentDate, selectedDate, events, tasks, loading, showEventModal,
                   newEventTitle, loads, creates, tz, logged, crashed>>

\* MovedMonth that keeps the year: the month after December is January of the
\* same year.
MovedMonthSameYear(prev, direction) ==
    IF direction = "prev" THEN NewDate(prev.y, (prev.m + 11) % 12, prev.d)
    ELSE NewDate(prev.y, (prev.m + 1) % 12, prev.d)

\* navigateMonth(direction): the month of a copy of currentDate is set one back
\* or forward.
MovedMonth(prev, direction) ==
    IF direction = "prev" THEN SetMonth(prev, prev.m - 1)
    ELSE SetMonth(prev, prev.m + 1)

\* NavigateMonth that clears the selection.
NavigateMonthClearing(direction, back, fwd) ==
    /\ Interactive
    /\ ~showEventModal
    /\ Len(loads) < MaxLoads
    /\ LET newDate == MovedMonth(currentDate, direction)
       IN  /\ MonthIndex(newDate) >= MonthIndex(InitialDate) - back
           /\ MonthIndex(newDate) <= MonthIndex(InitialDate) + fwd
           /\ currentDate' = newDate
           /\ IF newDate.y # currentDate.y \/ newDate.m # currentDate.m
              THEN /\ loading' = TRUE
                   /\ loads' = Append(loads, Load(newDate.y, newDate.m))
              ELSE UNCHANGED <<loading, loads>>
    /\ selectedDate' = NoDate
    /\ crashed' = RenderThrows(loading', events, tasks, currentDate', selectedDate')
    /\ UNCHANGED <<events, tasks, showEventModal, newEventTitle,
                   creates, tz, alert, logged>>

\* A chevron is pressed.  When the displayed year or month changes, the effect
\* calls loadCalendarData from the new render.
NavigateMonth(direction, back, fwd) ==
    /\ Interactive
    /\ ~showEventModal
    /\ Len(loads) < MaxLoads
    /\ LET newDate == MovedMonth(currentDate, direction)
       IN  /\ MonthIndex(newDate) >= MonthIndex(InitialDate) - back
           /\ MonthIndex(newDate) <= MonthIndex(InitialDate) + fwd
           /\ currentDate' = newDate
           /\ IF newDate.y # currentDate.y \/ newDate.m # currentDate.m
              THEN /\ loading' = TRUE
                   /\ loads' = Append(loads, Load(newDate.y, newDate.m))
              ELSE UNCHANGED <<loading, loads>>
    /\ crashed' = RenderThrows(loading', events, tasks, currentDate', selectedDate)
    /\ UNCHANGED <<selectedDate, events, tasks, showEventModal, newEventTitle,
                   creates, tz, alert, logged>>

\* HandleDayPress without its early return.
HandleDayPressAnyCell(day, isCurrentMonth, selected, currentYear, currentMonth) ==
    NewDate(currentYear, currentMonth, day)

\* handleDayPress(day, isCurrentMonth): the new selection.
HandleDayPress(day, isCurrentMonth, selected, currentYear, currentMonth) ==
    IF ~isCurrentMonth THEN selected
    ELSE NewDate(currentYear, currentMonth, day)

\* Days of the month the user presses: in the screen and the grid
\* specifications, and in the filter specification.
PressDays == {2}
FilterPressDays == {2, 30, 31}
AgendaPressDays == {2, 3, 4}
SelectPressDays == {1, 29, 31}

\* Pressable with the cells of the neighbouring months enabled.
PressableAnyCell(among) ==
    LET days == CalendarDays(currentDate.y, currentDate.m)
    IN  {days[k] : k \in {j \in 1..Len(days) : days[j].day \in among}}

\* The cells of the grid on the screen, among those of the given days, that a
\* press reaches: a disabled cell takes no press.
Pressable(among) ==
    LET days == CalendarDays(currentDate.y, currentDate.m)
    IN  {days[k] : k \in {j \in 1..Len(days) :
                              days[j].isCurrentMonth /\ days[j].day \in among}}

\* A cell of the grid is pressed.
PressDay(cell) ==
    /\ Interactive
    /\ ~showEventModal
    /\ selectedDate' = HandleDayPress(cell.day, cell.isCurrentMonth, selectedDate,
                                      currentDate.y, currentDate.m)
    /\ crashed' = RenderThrows(loading, events, tasks, currentDate, selectedDate')
    /\ UNCHANGED <<currentDate, events, tasks, loading, showEventModal, newEventTitle,
                   loads, creates, tz, alert, logged>>

\* The panel's Add button (it has one in both views of a selected day).
OpenModal ==
    /\ Interactive
    /\ ~showEventModal
    /\ selectedDate # NoDate
    /\ showEventModal' = TRUE
    /\ UNCHANGED <<currentDate, selectedDate, events, tasks, loading, newEventTitle,
                   loads, creates, tz, alert, logged, crashed>>

\* Cancel, the close icon or the back button of the modal.
CloseModal ==
    /\ Interactive
    /\ showEventModal
    /\ showEventModal' = FALSE
    /\ UNCHANGED <<currentDate, selectedDate, events, tasks, loading, newEventTitle,
                   loads, creates, tz, alert, logged, crashed>>

\* Titles the user types in the model: empty, a blank, a letter.
Titles == {<<>>, <<" ">>, <<"A">>}

\* onChangeText of the title input.
ChangeTitle(text) ==
    /\ Interactive
    /\ showEventModal
    /\ text # newEventTitle
    /\ newEventTitle' = text
    /\ UNCHANGED <<currentDate, selectedDate, events, tasks, loading, showEventModal,
                   loads, creates, tz, alert, logged, crashed>>

RECURSIVE TrimStart(_)
TrimStart(s) == IF s # <<>> /\ Head(s) = " " THEN TrimStart(Tail(s)) ELSE s

RECURSIVE TrimEnd(_)
TrimEnd(s) ==
    IF s # <<>> /\ s[Len(s)] = " " THEN TrimEnd(SubSeq(s, 1, Len(s) - 1)) ELSE s

\* String.prototype.trim.
Trim(s) == TrimEnd(TrimStart(s))

\* SendsCreate that tests the title as it was typed.
SendsCreateUntrimmed(title, selected) == ~(title = <<>> \/ selected = NoDate)

\* handleAddEvent up to its await: whether a create request is sent.
SendsCreate(title, selected) == ~(Trim(title) = <<>> \/ selected = NoDate)

\* Date.prototype.getTime of a Date of the screen, a local midnight: the seconds
\* since 1970 UTC.
MidnightOf(date, zone) == MakeDay(date.y, date.m, date.d) * 86400 - zone * 3600

\* Date.prototype.toISOString of the time of so many seconds since 1970 UTC:
\* YYYY-MM-DDTHH:mm:ss.sssZ, in UTC.
ToISOString(seconds) ==
    LET day == NewDate(1970, 0, (seconds \div 86400) + 1)
        time == seconds % 86400
        Two(n) == PadStart(NatToString(n), 2, "0")
    IN  PadStart(NatToString(day.y), 4, "0") \o <<"-">> \o Two(day.m + 1) \o <<"-">>
            \o Two(day.d) \o <<"T">> \o Two(time \div 3600) \o <<":">>
            \o Two((time % 3600) \div 60) \o <<":">> \o Two(time % 60)
            \o <<".", "0", "0", "0", "Z">>

\* eventData of handleAddEvent: the event starts at the selected date's time and
\* ends one hour (60 * 60 * 1000 ms) later.
EventData(title, selected, zone) ==
    [title |-> title,
     start_datetime |-> ToISOString(MidnightOf(selected, zone)),
     end_datetime |-> ToISOString(MidnightOf(selected, zone) + 60 * 60),
     event_type |-> "custom"]

\* The modal's Add Event button is pressed (it is disabled while the trimmed
\* title is empty), with fewer than max requests awaited.  The handler is the
\* one of the render on the screen: the request carries eventData and keeps
\* that render's selection and loadCalendarData.
PressAddEventUpTo(max) ==
    /\ Interactive
    /\ showEventModal
    /\ Trim(newEventTitle) # <<>>
    /\ Len(creates) < max
    /\ creates' = IF SendsCreate(newEventTitle, selectedDate)
                  THEN Append(creates, [eventData |-> EventData(newEventTitle,
                                                                selectedDate, tz),
                                        selected |-> selectedDate,
                                        year |-> currentDate.y,
                                        month |-> currentDate.m])
                  ELSE creates
    /\ UNCHANGED <<currentDate, selectedDate, events, tasks, loading, showEventModal,
                   newEventTitle, loads, tz, alert, logged, crashed>>

PressAddEvent == PressAddEventUpTo(MaxCreates)

\* calendarEventsApi.create resolves: the title is cleared, the modal closed,
\* loadCalendarData of the render that sent the request is called, and the
\* success alert is raised.
CreateResolves(i) ==
    /\ Mounted
    /\ i \in 1..Len(creates)
    /\ Len(loads) < MaxLoads
    /\ creates' = Without(creates, i)
    /\ newEventTitle' = <<>>
    /\ showEventModal' = FALSE
    /\ loading' = TRUE
    /\ loads' = Append(loads, Load(creates[i].year, creates[i].month))
    /\ alert' = EventAddedAlert
    /\ UNCHANGED <<currentDate, selectedDate, events, tasks, tz, logged, crashed>>

\* CreateFails that closes the modal and clears the title as a success does.
CreateFailsClosingModal(i) ==
    /\ Mounted
    /\ i \in 1..Len(creates)
    /\ creates' = Without(creates, i)
    /\ alert' = AddFailedAlert
    /\ newEventTitle' = <<>>
    /\ showEventModal' = FALSE
    /\ UNCHANGED <<currentDate, selectedDate, events, tasks, loading, loads, tz,
                   logged, crashed>>

\* calendarEventsApi.create fails: only an alert.
CreateFails(i) ==
    /\ Mounted
    /\ i \in 1..Len(creates)
    /\ creates' = Without(creates, i)
    /\ alert' = AddFailedAlert
    /\ UNCHANGED <<currentDate, selectedDate, events, tasks, loading, showEventModal,
                   newEventTitle, loads, tz, logged, crashed>>

-----------------------------------------------------------------------------
(* The specifications.                                                     *)

\* Offsets of the device's time zone, in hours.
TimeZones == {0}

\* The screen after it is mounted with a signed-in user: the first render shows
\* the loading view and the effect has called loadCalendarData.
Init ==
    /\ currentDate = InitialDate
    /\ selectedDate = NoDate
    /\ events = <<>>
    /\ tasks = <<>>
    /\ loading = TRUE
    /\ showEventModal = FALSE
    /\ newEventTitle = <<>>
    /\ loads = <<Load(InitialDate.y, InitialDate.m)>>
    /\ creates = <<>>
    /\ tz \in TimeZones
    /\ alert = NoAlert
    /\ logged = NoLog
    /\ crashed = FALSE

Requests == {"monthView", "tasks"}

Next ==
    \/ \E i \in 1..Len(loads), r \in Requests : RequestResolves(i, r)
    \/ \E i \in 1..Len(loads), r \in Requests :
           \E e \in TypedMonthViews, t \in TasksResponses : LoadSucceeds(i, r, e, t)
    \/ \E i \in 1..Len(loads), r \in Requests : LoadFails(i, r)
    \/ \E direction \in {"prev", "next"} : NavigateMonth(direction, MonthsBack, MonthsFwd)
    \/ \E cell \in Pressable(PressDays) : PressDay(cell)
    \/ OpenModal
    \/ CloseModal
    \/ \E text \in Titles : ChangeTitle(text)
    \/ PressAddEvent
    \/ \E i \in 1..Len(creates) : CreateResolves(i)
    \/ \E i \in 1..Len(creates) : CreateFails(i)
    \/ DismissAlert

\* The screen: every operation, a few months around August 2025.
Spec == Init /\ [][Next]_vars

NextGrid ==
    \/ \E i \in 1..Len(loads), r \in Requests : RequestResolves(i, r)
    \/ \E i \in 1..Len(loads), r \in Requests, e \in EmptyResponses :
           LoadSucceeds(i, r, e, e)
    \/ \E direction \in {"prev", "next"} :
           NavigateMonth(direction, GridMonthsBack, GridMonthsFwd)
    \/ \E cell \in Pressable(PressDays) : PressDay(cell)

\* The grid: navigation over the months from a leap February on, with loads
\* that find nothing.
GridSpec == Init /\ [][NextGrid]_vars

NextFilter ==
    \/ \E i \in 1..Len(loads), r \in Requests : RequestResolves(i, r)
    \/ \E i \in 1..Len(loads), r \in Requests :
           \E e \in MonthViewResponses, t \in FilterTasksResponses : LoadSucceeds(i, r, e, t)
    \/ \E i \in 1..Len(loads), r \in Requests : LoadFails(i, r)
    \/ \E direction \in {"prev", "next"} : NavigateMonth(direction, FilterMonthsBack, FilterMonthsFwd)
    \/ \E cell \in Pressable(FilterPressDays) : PressDay(cell)
    \/ DismissAlert

\* The filter: loads with every kind of answer, navigation and day selection,
\* without the add-event modal.
FilterSpec == Init /\ [][NextFilter]_vars

\* Offsets of the device's time zone in the add-event specification: west of
\* UTC, UTC and east of UTC.
CreateTimeZones == {-5, 0, 2}

\* Init in any of the time zones of the add-event specification.
InitCreate ==
    /\ currentDate = InitialDate
    /\ selectedDate = NoDate
    /\ events = <<>>
    /\ tasks = <<>>
    /\ loading = TRUE
    /\ showEventModal = FALSE
    /\ newEventTitle = <<>>
    /\ loads = <<Load(InitialDate.y, InitialDate.m)>>
    /\ creates = <<>>
    /\ tz \in CreateTimeZones
    /\ alert = NoAlert
    /\ logged = NoLog
    /\ crashed = FALSE

NextCreate ==
    \/ \E i \in 1..Len(loads), r \in Requests : RequestResolves(i, r)
    \/ \E i \in 1..Len(loads), r \in Requests, e \in EmptyResponses :
           LoadSucceeds(i, r, e, e)
    \/ \E cell \in Pressable(PressDays) : PressDay(cell)
    \/ OpenModal
    \/ CloseModal
    \/ \E text \in Titles : ChangeTitle(text)
    \/ PressAddEventUpTo(MaxPresses)
    \/ \E i \in 1..Len(creates) : CreateResolves(i)
    \/ \E i \in 1..Len(creates) : CreateFails(i)
    \/ DismissAlert

\* Adding events: a day is selected and titles are typed and sent, with the
\* button pressed again while a request is awaited, in several time zones.
CreateSpec == InitCreate /\ [][NextCreate]_vars

NextSelect ==
    \/ \E i \in 1..Len(loads), r \in Requests : RequestResolves(i, r)
    \/ \E i \in 1..Len(loads), r \in Requests, e \in EmptyResponses :
           LoadSucceeds(i, r, e, e)
    \/ \E direction \in {"prev", "next"} :
           NavigateMonth(direction, SelectMonthsBack, SelectMonthsFwd)
    \/ \E cell \in Pressable(SelectPressDays) : PressDay(cell)

\* The selection: the first and the last days of the months from February to
\* September 2025 are pressed.
SelectSpec == Init /\ [][NextSelect]_vars

NextLoad ==
    \/ \E i \in 1..Len(loads), r \in Requests : RequestResolves(i, r)
    \/ \E i \in 1..Len(loads), r \in Requests :
           \E e \in ShapedMonthViews, t \in ShapedTasksResponses :
               LoadSucceeds(i, r, e, t)
    \/ \E i \in 1..Len(loads), r \in Requests : LoadFails(i, r)
    \/ \E direction \in {"prev", "next"} :
           NavigateMonth(direction, LoadMonthsBack, LoadMonthsFwd)
    \/ \E cell \in Pressable(PressDays) : PressDay(cell)
    \/ DismissAlert

\* The loads: answers of every shape and failures of either request, between
\* navigation and day selection.
LoadSpec == Init /\ [][NextLoad]_vars

\* Offsets of the device's time zone in the agenda specification: the least and
\* the greatest offset in use (UTC-12, UTC+14) and UTC.
AgendaTimeZones == {-12, 0, 14}

\* Init in any of the time zones of the agenda specification.
InitAgenda ==
    /\ currentDate = InitialDate
    /\ selectedDate = NoDate
    /\ events = <<>>
    /\ tasks = <<>>
    /\ loading = TRUE
    /\ showEventModal = FALSE
    /\ newEventTitle = <<>>
    /\ loads = <<Load(InitialDate.y, InitialDate.m)>>
    /\ creates = <<>>
    /\ tz \in AgendaTimeZones
    /\ alert = NoAlert
    /\ logged = NoLog
    /\ crashed = FALSE

NextAgenda ==
    \/ \E i \in 1..Len(loads), r \in Requests : RequestResolves(i, r)
    \/ \E i \in 1..Len(loads), r \in Requests :
           \E e \in AgendaMonthViews, t \in AgendaTasksResponses :
               LoadSucceeds(i, r, e, t)
    \/ \E direction \in {"prev", "next"} :
           NavigateMonth(direction, AgendaMonthsBack, AgendaMonthsFwd)
    \/ \E cell \in Pressable(AgendaPressDays) : PressDay(cell)

\* The agenda: loads of events and tasks of the same days, day selection and
\* navigation, in several time zones.
AgendaSpec == InitAgenda /\ [][NextAgenda]_vars

NextRender ==
    \/ \E i \in 1..Len(loads), r \in Requests : RequestResolves(i, r)
    \/ \E i \in 1..Len(loads), r \in Requests :
           \E e \in AgendaMonthViews, t \in AgendaTasksResponses :
               LoadSucceeds(i, r, e, t)
    \/ \E direction \in {"prev", "next"} :
           NavigateMonth(direction, AgendaMonthsBack, AgendaMonthsFwd)
    \/ \E cell \in Pressable(AgendaPressDays) : PressDay(cell)
    \/ Rerender

\* The renders: the agenda specification with renders at any time.
RenderSpec == InitAgenda /\ [][NextRender]_vars

-----------------------------------------------------------------------------
(* The Gregorian calendar, stated without Date, for the properties below.   *)

GregorianLeap(y) == (y % 4 = 0 /\ y % 100 # 0) \/ y % 400 = 0

\* Days of month m (0..11) of year y.
GregorianLength(y, m) ==
    IF m = 1 THEN (IF GregorianLeap(y) THEN 29 ELSE 28)
    ELSE IF m \in {3, 5, 8, 10} THEN 30 ELSE 31

\* Weekday (0 = Sunday) of day 1 of month m (0..11) of year y, by Zeller's
\* congruence.
GregorianFirstWeekday(y, m) ==
    LET mm == IF m < 2 THEN m + 13 ELSE m + 1
        yy == IF m < 2 THEN y - 1 ELSE y
        kk == yy % 100
        jj == yy \div 100
        h == (1 + ((13 * (mm + 1)) \div 5) + kk + (kk \div 4) + (jj \div 4) + 5 * jj) % 7
    IN  (h + 6) % 7

\* The month before and the month after month m of year y.
PreviousMonth(y, m) == IF m = 0 THEN [y |-> y - 1, m |-> 11] ELSE [y |-> y, m |-> m - 1]
FollowingMonth(y, m) == IF m = 11 THEN [y |-> y + 1, m |-> 0] ELSE [y |-> y, m |-> m + 1]

\* The key YYYY-MM-DD of (y, one-based month, d), digit by digit.
KeyOf(y, month, d) ==
    << DigitChar(y \div 1000), DigitChar((y \div 100) % 10), DigitChar((y \div 10) % 10),
       DigitChar(y % 10), "-", DigitChar(month \div 10), DigitChar(month % 10), "-",
       DigitChar(d \div 10), DigitChar(d % 10) >>

\* The string value begins with the key.
BeginsWith(value, key) ==
    /\ value.k = "str"
    /\ Len(value.s) >= Len(key)
    /\ \A i \in 1..Len(key) : value.s[i] = key[i]

\* The items of a collection whose date begins with the key, in order.
ItemsOn(items, key) == SelectSeq(items, LAMBDA item : BeginsWith(item.date, key))

-----------------------------------------------------------------------------
(* The month grid: C1, C5, C6, C7 (specification GridSpec).                 *)

\* C1: whenever the grid is shown, in any month navigation reaches,
\* renderCalendar returns exactly 42 cells.
C1_GridHas42Cells == GridShown => Len(Grid) = 42

\* A month of 28 days that starts on a Sunday (February 2026) fills 42 cells.
C1_Witness ==
    /\ GridShown
    /\ currentDate.y = 2026 /\ currentDate.m = 1
    /\ GregorianLength(currentDate.y, currentDate.m) = 28
    /\ GregorianFirstWeekday(currentDate.y, currentDate.m) = 0
    /\ Len(Grid) = 42

\* C5: the cells are, in order: the last firstWeekday days of the previous month
\* ascending and not of the current month, the days 1..daysInMonth of the
\* current month, then 1, 2, ... not of the current month, 42 cells in all; the
\* month before January is December of the year before.
C5_GridLayout ==
    GridShown =>
        LET grid == Grid
            y == currentDate.y
            m == currentDate.m
            first == GregorianFirstWeekday(y, m)
            length == GregorianLength(y, m)
            before == PreviousMonth(y, m)
            prevLength == GregorianLength(before.y, before.m)
        IN  /\ Len(grid) = 42
            /\ \A k \in 1..Len(grid) :
                   IF k <= first
                   THEN grid[k].day = prevLength - first + k /\ ~grid[k].isCurrentMonth
                   ELSE IF k <= first + length
                   THEN grid[k].day = k - first /\ grid[k].isCurrentMonth
                   ELSE grid[k].day = k - first - length /\ ~grid[k].isCurrentMonth

\* January 2026 starts on a Thursday: the grid opens with 28..31 December.
C5_Witness ==
    /\ GridShown
    /\ currentDate.y = 2026 /\ currentDate.m = 0
    /\ LET grid == Grid
       IN  /\ grid[1].day = 28 /\ grid[4].day = 31 /\ ~grid[4].isCurrentMonth
           /\ grid[5].day = 1 /\ grid[5].isCurrentMonth
           /\ grid[36].day = 1 /\ ~grid[36].isCurrentMonth

\* The cells of a grid marked as of the current month.
CurrentMonthCells(grid) == {k \in 1..Len(grid) : grid[k].isCurrentMonth}

\* C6: the number of cells of the current month is the Gregorian length of the
\* displayed month: 29 for February 2024, 28 for February 2025 and 2026.
C6_CurrentMonthCount ==
    GridShown =>
        LET count == Cardinality(CurrentMonthCells(Grid))
        IN  /\ count = GregorianLength(currentDate.y, currentDate.m)
            /\ (currentDate.y = 2024 /\ currentDate.m = 1) => count = 29
            /\ (currentDate.y = 2025 /\ currentDate.m = 1) => count = 28

\* February of the leap year 2024 is displayed with 29 cells.
C6_Witness ==
    /\ GridShown
    /\ currentDate.y = 2024 /\ currentDate.m = 1
    /\ Cardinality(CurrentMonthCells(Grid)) = 29

\* C7: every date of the displayed month has exactly one cell that is marked as
\* of the current month and carries its day.
C7_OneCellPerDate ==
    GridShown =>
        LET grid == Grid
            current == CurrentMonthCells(grid)
        IN  \A d \in 1..GregorianLength(currentDate.y, currentDate.m) :
                Cardinality({k \in current : grid[k].day = d}) = 1

\* 29 February 2024 has its one cell, though another cell carries a 29 too.
C7_Witness ==
    /\ GridShown
    /\ currentDate.y = 2024 /\ currentDate.m = 1
    /\ LET grid == Grid
       IN  /\ Cardinality({k \in CurrentMonthCells(grid) : grid[k].day = 29}) = 1
           /\ Cardinality({k \in 1..Len(grid) : grid[k].day = 29}) = 2

-----------------------------------------------------------------------------
(* The filter: C2, C8, C9, C10 (specification FilterSpec); the loads: C3,   *)
(* C4 (specification Spec).                                                *)

\* C2: every cell of the grid, the cells of the neighbouring months too, holds
\* exactly the events and tasks whose date begins with the key of the cell's
\* own year, month and day.
C2_CellsHoldOwnDate ==
    GridShown =>
        LET grid == Grid
            y == currentDate.y
            m == currentDate.m
            first == GregorianFirstWeekday(y, m)
            length == GregorianLength(y, m)
        IN  \A k \in 1..Len(grid) :
                LET own == IF k <= first THEN PreviousMonth(y, m)
                           ELSE IF k <= first + length THEN [y |-> y, m |-> m]
                           ELSE FollowingMonth(y, m)
                    key == KeyOf(own.y, own.m + 1, grid[k].day)
                IN  /\ grid[k].events = ItemsOn(events, key)
                    /\ grid[k].tasks = ItemsOn(tasks, key)

\* C3: a load that finishes after a load started later than it has finished
\* leaves events and tasks as they are.
C3_StaleLoadDiscarded ==
    [][\A i \in 1..Len(loads) :
           (loads[i].stale /\ loads' = AfterLoad(i))
               => (events' = events /\ tasks' = tasks)]_vars

\* C4: while a call of loadCalendarData is in flight the screen is the loading
\* view: neither the grid nor the agenda is computed.
C4_LoadingWhileLoadInFlight == (Mounted /\ loads # <<>>) => loading

\* C8: a cell's events and tasks, and the selected day's, are exactly the items
\* whose date is a string that begins with YYYY-MM-DD of the displayed year and
\* month and the cell's day (of the selected date, for the selected day), month
\* and day in two digits; the event that starts 2025-08-02T10:00:00Z is found on
\* day 2 of August 2025 and not on day 3.
C8_MatchIsKeyPrefix ==
    GridShown =>
        LET grid == Grid
            found == GetEventsForSelectedDate(Array(events), Array(tasks), selectedDate)
            example == CalendarEvent(1, Str(DateAug02 \o Time10Z))
            Has(items, x) == \E i \in 1..Len(items) : items[i] = x
        IN  /\ \A k \in 1..Len(grid) :
                   LET key == KeyOf(currentDate.y, currentDate.m + 1, grid[k].day)
                   IN  /\ grid[k].events = ItemsOn(events, key)
                       /\ grid[k].tasks = ItemsOn(tasks, key)
            /\ selectedDate # NoDate =>
                   LET key == KeyOf(selectedDate.y, selectedDate.m + 1, selectedDate.d)
                   IN  /\ found.events = ItemsOn(events, key)
                       /\ found.tasks = ItemsOn(tasks, key)
            /\ (Has(events, example) /\ currentDate.y = 2025 /\ currentDate.m = 7) =>
                   \A k \in CurrentMonthCells(grid) :
                       /\ grid[k].day = 2 => Has(grid[k].events, example)
                       /\ grid[k].day = 3 => ~Has(grid[k].events, example)

\* August 2025 is displayed with 2 August selected, and the event that starts
\* 2025-08-02T10:00:00Z and the task due 2025-08-02 are found for the day.
C8_Witness ==
    /\ GridShown
    /\ currentDate.y = 2025 /\ currentDate.m = 7
    /\ selectedDate = [y |-> 2025, m |-> 7, d |-> 2]
    /\ LET found == GetEventsForSelectedDate(Array(events), Array(tasks), selectedDate)
       IN  /\ found.events = <<CalendarEvent(1, Str(DateAug02 \o Time10Z))>>
           /\ found.tasks = <<Task(1, Str(DateAug02))>>

\* The value is a string that begins with a date YYYY-MM-DD.
IsDateString(value) ==
    /\ value.k = "str"
    /\ Len(value.s) >= 10
    /\ \A i \in {1, 2, 3, 4, 6, 7, 9, 10} : IsDigit(value.s[i])
    /\ value.s[5] = "-" /\ value.s[8] = "-"

\* C9: an item whose date is missing, null, no string or no date string is in
\* no cell and not in the selected day's items, and no render throws for it.
C9_BadDatesNeitherMatchNorThrow ==
    /\ ~crashed
    /\ GridShown =>
           LET grid == Grid
               found == GetEventsForSelectedDate(Array(events), Array(tasks), selectedDate)
               Good(items) == \A i \in 1..Len(items) : IsDateString(items[i].date)
           IN  /\ \A k \in 1..Len(grid) : Good(grid[k].events) /\ Good(grid[k].tasks)
               /\ Good(found.events) /\ Good(found.tasks)

\* C10: with the events or the tasks empty or undefined, the filter of a day and
\* of the selected day return an empty list for that collection and do not throw
\* for it; with both empty or undefined neither they nor the agenda throw, and
\* the agenda is empty.
C10_EmptyCollections ==
    LET Absent == {Undefined, Array(<<>>)}
        days == 1..31
    IN  /\ \A evs \in Absent :
               /\ ~FilterThrows(evs)
               /\ \A d \in days :
                      GetEventsForDate(evs, Array(tasks), currentDate.y,
                                       currentDate.m, d).events = <<>>
               /\ GetEventsForSelectedDate(evs, Array(tasks), selectedDate).events = <<>>
        /\ \A tks \in Absent :
               /\ ~FilterThrows(tks)
               /\ \A d \in days :
                      GetEventsForDate(Array(events), tks, currentDate.y,
                                       currentDate.m, d).tasks = <<>>
               /\ GetEventsForSelectedDate(Array(events), tks, selectedDate).tasks = <<>>
        /\ \A evs \in Absent, tks \in Absent :
               /\ ~GetEventsThrows(evs, tks)
               /\ ~RenderCalendarThrows(evs, tks, currentDate.y, currentDate.m)
               /\ ~RenderSelectedDayEventsThrows(evs, tks, selectedDate)
               /\ RenderSelectedDayEvents(evs, tks, selectedDate, tz).allItems = <<>>
        /\ (events = <<>> /\ tasks = <<>> /\ ~loading) =>
               /\ ~crashed
               /\ Panel.allItems = <<>>
               /\ LET grid == Grid
                  IN  \A k \in 1..Len(grid) :
                          grid[k].events = <<>> /\ grid[k].tasks = <<>>

\* A day is selected while both collections are empty: the panel is its
\* empty-day view.
C10_Witness ==
    /\ GridShown
    /\ events = <<>> /\ tasks = <<>>
    /\ selectedDate # NoDate
    /\ Panel.view = "emptyDay"

-----------------------------------------------------------------------------
(* The agenda: C11, C12, C13 (specification AgendaSpec).                    *)

\* The time of item a is an instant later than the time of item b.
Later(a, b, zone) ==
    LET aTime == GetTime(a.date, zone)
        bTime == GetTime(b.date, zone)
    IN  /\ ~aTime.nan /\ ~bTime.nan
        /\ \/ aTime.sec > bTime.sec
           \/ aTime.sec = bTime.sec /\ aTime.ms > bTime.ms

\* The times of the items a and b are the same instant.
SameTime(a, b, zone) ==
    LET aTime == GetTime(a.date, zone)
        bTime == GetTime(b.date, zone)
    IN  ~aTime.nan /\ ~bTime.nan /\ aTime.sec = bTime.sec /\ aTime.ms = bTime.ms

\* The events, then the tasks, of the collections on the selected date.
MatchedItems ==
    LET key == KeyOf(selectedDate.y, selectedDate.m + 1, selectedDate.d)
    IN  ItemsOn(events, key) \o ItemsOn(tasks, key)

\* The place of an item in a list that holds it once.
Position(items, x) == CHOOSE k \in 1..Len(items) : items[k] = x

\* C11: the agenda of the selected date holds exactly the events and tasks
\* whose date begins with the key of the selected date's own year, month and
\* day, whatever month is displayed, each once, and no item comes before an
\* item of an earlier time.
C11_AgendaExactAndSorted ==
    (GridShown /\ selectedDate # NoDate) =>
        LET matched == MatchedItems
        IN  \A agenda \in AgendaOutcomes(Array(events), Array(tasks), selectedDate, tz) :
                /\ Len(agenda) = Len(matched)
                /\ \A i \in 1..Len(matched) :
                       Cardinality({j \in 1..Len(agenda) : agenda[j] = matched[i]}) = 1
                /\ \A i, j \in 1..Len(agenda) :
                       i < j => ~Later(agenda[i], agenda[j], tz)

\* C12: in the agenda, items of the same time keep the order they have in the
\* merged input: an event comes before a task of the same time, and events (and
\* tasks) of the same time stay in the order of their collection.
C12_TiesKeepInputOrder ==
    (GridShown /\ selectedDate # NoDate) =>
        LET matched == MatchedItems
        IN  \A agenda \in AgendaOutcomes(Array(events), Array(tasks), selectedDate, tz) :
                \A i, j \in 1..Len(agenda) :
                    (i < j /\ SameTime(agenda[i], agenda[j], tz)) =>
                        /\ Position(matched, agenda[i]) < Position(matched, agenda[j])
                        /\ ~(agenda[i].type = "task" /\ agenda[j].type = "event")

\* 2 August 2025 is selected in UTC: the event at 00:00Z stays before the two
\* tasks of the day, which tie with it and stay in their order, and the two
\* events at 10:00Z stay in theirs.
C12_Witness ==
    /\ GridShown
    /\ tz = 0
    /\ selectedDate = [y |-> 2025, m |-> 7, d |-> 2]
    /\ Panel.allItems = << CalendarEvent(13, Str(DateAug02 \o Time00Z)),
                           Task(11, Str(DateAug02)), Task(12, Str(DateAug02)),
                           CalendarEvent(12, Str(DateAug02 \o Time10Z)),
                           CalendarEvent(14, Str(DateAug02 \o Time10Z)),
                           CalendarEvent(11, Str(DateAug02 \o Time14)) >>

\* C13: when the selected day holds one event that starts at 14:00 and one task
\* due that day with no time, the time of the task is midnight of that day (in
\* UTC or on the device) and the agenda is the task, then the event, in every
\* time zone.
C13_TaskBeforeEventAt14 ==
    (GridShown /\ selectedDate # NoDate) =>
        LET key == KeyOf(selectedDate.y, selectedDate.m + 1, selectedDate.d)
            dayEvents == ItemsOn(events, key)
            dayTasks == ItemsOn(tasks, key)
            midnight == MakeDay(selectedDate.y, selectedDate.m, selectedDate.d) * 86400
        IN  ( /\ Len(dayEvents) = 1 /\ dayEvents[1].date = Str(key \o Time14)
              /\ Len(dayTasks) = 1 /\ dayTasks[1].date = Str(key) ) =>
                /\ LET due == GetTime(dayTasks[1].date, tz)
                   IN  /\ ~due.nan /\ due.ms = 0
                       /\ due.sec \in {midnight, midnight - tz * 3600}
                /\ \A agenda \in AgendaOutcomes(Array(events), Array(tasks),
                                                 selectedDate, tz) :
                       agenda = <<dayTasks[1], dayEvents[1]>>

-----------------------------------------------------------------------------
(* Navigation and selection: C14 (specification GridSpec), C15, C16, C17    *)
(* (specification SelectSpec).                                             *)

\* navigateMonth(direction) called n times in a row on a date: each call works
\* on the date the call before it has set.
RECURSIVE Moved(_, _, _)
Moved(date, direction, n) ==
    IF n = 0 THEN date
    ELSE CHOOSE after \in {Moved(newDate, direction, n - 1) :
                               newDate \in {MovedMonth(date, direction)}} : TRUE

\* The year and the month of a date.
MonthOf(date) == [y |-> date.y, m |-> date.m]

\* C14: every change of the displayed date is a move to the month before or
\* the month after, the year rolling at December and January; next displays
\* the following month and prev the previous one; next then prev displays the
\* same month again; twelve times next from January displays January of the
\* next year, in a grid of 42 cells.
C14_NavigateByOneMonth ==
    [][LET y == currentDate.y
           m == currentDate.m
       IN  /\ currentDate' # currentDate =>
                  /\ MonthOf(currentDate') \in {PreviousMonth(y, m), FollowingMonth(y, m)}
                  /\ currentDate'.m \in 0..11
           /\ MonthOf(MovedMonth(currentDate, "next")) = FollowingMonth(y, m)
           /\ MonthOf(MovedMonth(currentDate, "prev")) = PreviousMonth(y, m)
           /\ MovedMonth(MovedMonth(currentDate, "next"), "prev") = currentDate
           /\ m = 0 =>
                  LET after == Moved(currentDate, "next", 12)
                  IN  /\ MonthOf(after) = [y |-> y + 1, m |-> 0]
                      /\ Len(CalendarDays(after.y, after.m)) = 42]_vars

\* January 2026 is displayed: navigation has rolled the year after December
\* 2025.
C14_Witness ==
    /\ GridShown
    /\ currentDate.y = 2026 /\ currentDate.m = 0
    /\ MonthOf(MovedMonth(currentDate, "prev")) = [y |-> 2025, m |-> 11]
    /\ Len(Grid) = 42

\* C15: a step that changes the displayed date leaves the selected date as it
\* is, in the displayed month or not.
C15_NavigationKeepsSelection ==
    [][currentDate' # currentDate => selectedDate' = selectedDate]_vars

\* 31 August 2025 is still selected while February 2025, which has no day 31,
\* is displayed.
C15_Witness ==
    /\ GridShown
    /\ selectedDate = [y |-> 2025, m |-> 7, d |-> 31]
    /\ currentDate.y = 2025 /\ currentDate.m = 1

\* C16: handleDayPress with isCurrentMonth false returns the selection as it
\* is; with isCurrentMonth true it returns the day of the displayed year and
\* month; a step that changes the selection sets it to a day of the displayed
\* month and leaves the displayed date, the events and the tasks as they are.
C16_SelectDay ==
    [][LET y == currentDate.y
           m == currentDate.m
       IN  /\ \A day \in 1..31 :
                  HandleDayPress(day, FALSE, selectedDate, y, m) = selectedDate
           /\ \A day \in 1..GregorianLength(y, m) :
                  HandleDayPress(day, TRUE, selectedDate, y, m)
                      = [y |-> y, m |-> m, d |-> day]
           /\ selectedDate' # selectedDate =>
                  /\ MonthOf(selectedDate') = [y |-> y, m |-> m]
                  /\ selectedDate'.d \in 1..GregorianLength(y, m)
                  /\ currentDate' = currentDate
                  /\ events' = events
                  /\ tasks' = tasks]_vars

\* 1 February 2025 is selected in the grid of February 2025, after another
\* month was displayed.
C16_Witness ==
    /\ GridShown
    /\ currentDate.y = 2025 /\ currentDate.m = 1
    /\ selectedDate = [y |-> 2025, m |-> 1, d |-> 1]

\* C17: the cells of the neighbouring months, and only they, are disabled; a
\* cell that takes a press is of the displayed month with a day in
\* 1..daysInMonth and its press selects its own date; the selected date, when
\* there is one, is a date of the calendar.
C17_SelectionIsPressedDate ==
    /\ selectedDate # NoDate =>
           /\ selectedDate.m \in 0..11
           /\ selectedDate.d \in 1..GregorianLength(selectedDate.y, selectedDate.m)
    /\ GridShown =>
           LET grid == Grid
               y == currentDate.y
               m == currentDate.m
               first == GregorianFirstWeekday(y, m)
               length == GregorianLength(y, m)
           IN  /\ \A k \in 1..Len(grid) :
                      /\ grid[k].disabled <=> (k <= first \/ k > first + length)
                      /\ ~grid[k].disabled => grid[k].day \in 1..length
               /\ \A cell \in Pressable(1..31) :
                      /\ cell.isCurrentMonth
                      /\ cell.day \in 1..length
                      /\ HandleDayPress(cell.day, cell.isCurrentMonth, selectedDate, y, m)
                             = [y |-> y, m |-> m, d |-> cell.day]

\* The last day of August 2025 was pressed in the grid of August 2025.
C17_Witness ==
    /\ GridShown
    /\ currentDate.y = 2025 /\ currentDate.m = 7
    /\ selectedDate = [y |-> 2025, m |-> 7, d |-> 31]
    /\ \E cell \in Pressable({31}) : cell.day = 31

-----------------------------------------------------------------------------
(* The loads: C18, C19, C20 (specification LoadSpec).                       *)

\* The events of the days of a week, and of the weeks of a month view, that
\* hold an events array.
RECURSIVE EventsOfDays(_)
EventsOfDays(days) ==
    IF days = <<>> THEN <<>>
    ELSE (IF ~Head(days).isNull /\ Head(days).events.def
          THEN Head(days).events.items ELSE <<>>) \o EventsOfDays(Tail(days))

RECURSIVE EventsOfWeeks(_)
EventsOfWeeks(weeks) ==
    IF weeks = <<>> THEN <<>>
    ELSE EventsOfDays(Head(weeks)) \o EventsOfWeeks(Tail(weeks))

\* C18: a step in which a load ends with an error raises the alert, leaves the
\* events and the tasks empty, whether or not the other request had been
\* answered, clears loading, and the render that follows does not throw: the
\* grid has 42 cells, none with an item.
C18_FailedLoad ==
    [][(Len(loads') < Len(loads) /\ logged'.kind = "error") =>
           /\ alert' = LoadFailedAlert
           /\ events' = <<>>
           /\ tasks' = <<>>
           /\ ~loading'
           /\ ~crashed'
           /\ LET days == CalendarDays(currentDate'.y, currentDate'.m)
              IN  /\ Len(days) = 42
                  /\ \A k \in 1..Len(days) :
                         LET found == GetEventsForDate(Array(events'), Array(tasks'),
                                                       currentDate'.y, currentDate'.m,
                                                       days[k].day)
                         IN  found.events = <<>> /\ found.tasks = <<>>]_vars

\* A load has failed in September 2025: the alert is on the screen over a grid
\* without items.
C18_Witness ==
    /\ GridShown
    /\ logged = ErrorLog
    /\ alert = LoadFailedAlert
    /\ currentDate.m = 8
    /\ events = <<>> /\ tasks = <<>>
    /\ Len(Grid) = 42

\* C19: a step in which a load ends with its data installs, for a month view
\* that is an array, the array; for one with a weeks array, the events of the
\* days that hold an events array, week after week and day after day; for an
\* object with an events array (and no weeks array), that array.
C19_ExtractsEvents ==
    [][(Len(loads') < Len(loads) /\ logged'.kind = "loaded") =>
           LET data == logged'.eventsData
           IN  /\ data.kind = "array" => events' = data.items
               /\ (data.kind = "object" /\ data.weeks.def) =>
                      events' = EventsOfWeeks(data.weeks.items)
               /\ (data.kind = "object" /\ ~data.weeks.def /\ data.events.def) =>
                      events' = data.events.items
               /\ data = WeeksData =>
                      events' = << CalendarEvent(5, Str(DateAug02 \o Time14)),
                                   CalendarEvent(6, Null),
                                   CalendarEvent(7, Str(DateSep30 \o Time10Z)) >>]_vars

\* The month view came as weeks of days: the events of its days are installed
\* in order.
C19_Witness ==
    /\ GridShown
    /\ logged.kind = "loaded"
    /\ logged.eventsData = WeeksData
    /\ Len(events) = 3
    /\ events[1].id = 5 /\ events[2].id = 6 /\ events[3].id = 7

\* C20: a step in which a load ends with its data installs no event for a
\* month view that is neither an array, nor an object with a weeks array or an
\* events array, and no task for tasks data that is not an array; the other
\* collection is installed as it came; no alert is raised and the render that
\* follows does not throw.
C20_UnexpectedShapes ==
    [][(Len(loads') < Len(loads) /\ logged'.kind = "loaded") =>
           LET data == logged'.eventsData
               due == logged'.tasksData
               eventsOdd == /\ data.kind # "array"
                            /\ ~(data.kind = "object" /\ (data.weeks.def \/ data.events.def))
               tasksOdd == due.kind # "array"
           IN  /\ eventsOdd => events' = <<>>
               /\ tasksOdd => tasks' = <<>>
               /\ (eventsOdd /\ ~tasksOdd) => tasks' = due.items
               /\ (tasksOdd /\ data.kind = "array") => events' = data.items
               /\ (eventsOdd \/ tasksOdd) =>
                      /\ alert' = alert
                      /\ ~loading'
                      /\ ~crashed']_vars

\* The month view came as null with the tasks as an array: no event and the
\* tasks are installed.
C20_Witness ==
    /\ GridShown
    /\ logged.kind = "loaded"
    /\ logged.eventsData = NullData
    /\ events = <<>>
    /\ tasks = SomeTasks

-----------------------------------------------------------------------------
(* The renders: C21 (specification RenderSpec), C23 (AgendaSpec), C25       *)
(* (SelectSpec).                                                           *)

\* C21: a render leaves the events, the tasks, the displayed date and the
\* selection as they were, elements and order, and a step in which no load
\* starts, is answered or ends leaves the events and the tasks as they were.
C21_RenderChangesNothing ==
    [][/\ Mounted =>
              LET left == RenderLeaves(events, tasks, currentDate, selectedDate, tz)
              IN  /\ left.events = events
                  /\ left.tasks = tasks
                  /\ left.currentDate = currentDate
                  /\ left.selectedDate = selectedDate
       /\ loads' = loads => (events' = events /\ tasks' = tasks)]_vars

\* The agenda of 2 August 2025 is shown in another order than the events have
\* in their collection, which still has its own.
C21_Witness ==
    /\ GridShown
    /\ selectedDate = [y |-> 2025, m |-> 7, d |-> 2]
    /\ events = AgendaEvents
    /\ Panel.allItems # <<>>
    /\ Panel.allItems[1] # events[1]

\* C23: the panel is the prompt when no day is selected, the empty-day view
\* when a day is selected and no event or task is on it, and otherwise the list
\* of as many items as events and tasks are on the day.
C23_PanelOutcomes ==
    GridShown =>
        LET panel == Panel
            count == IF selectedDate = NoDate THEN 0
                     ELSE LET key == KeyOf(selectedDate.y, selectedDate.m + 1,
                                           selectedDate.d)
                          IN  Len(ItemsOn(events, key)) + Len(ItemsOn(tasks, key))
        IN  IF selectedDate = NoDate THEN panel.view = "noSelection"
            ELSE IF count = 0 THEN panel.view = "emptyDay"
            ELSE panel.view = "eventsList" /\ Len(panel.allItems) = count

\* A day without items is selected while the collections hold items of other
\* days: the panel is the empty-day view, not the prompt.
C23_Witness ==
    /\ GridShown
    /\ selectedDate # NoDate
    /\ events # <<>> /\ tasks # <<>>
    /\ Panel.view = "emptyDay"

\* C25: at most one cell of the grid is rendered as selected, and a cell
\* rendered as selected is of the displayed month and carries the selected
\* date.
C25_OneSelectedCell ==
    GridShown =>
        LET grid == Grid
            selected == {k \in 1..Len(grid) : grid[k].isSelected}
        IN  /\ Cardinality(selected) <= 1
            /\ \A k \in selected :
                   /\ grid[k].isCurrentMonth
                   /\ selectedDate = [y |-> currentDate.y, m |-> currentDate.m,
                                      d |-> grid[k].day]

-----------------------------------------------------------------------------
(* Loads and months: C22, C27, C30 (specification Spec); adding an event:   *)
(* C24, C26, C28, C29 (specification CreateSpec).                          *)

\* C22: a step that changes the displayed year or month starts one load, and
\* every load that starts requests the month view of the year and the
\* one-based month, in 1..12, that are displayed when it starts, and the tasks.
C22_LoadsRequestDisplayedMonth ==
    [][/\ MonthOf(currentDate') # MonthOf(currentDate) =>
              Len(loads') = Len(loads) + 1
       /\ Len(loads') > Len(loads) =>
              LET load == loads'[Len(loads')]
              IN  /\ load.year = currentDate'.y
                  /\ load.month = currentDate'.m + 1
                  /\ load.month \in 1..12
                  /\ load.monthView = "pending" /\ load.tasks = "pending"]_vars

\* C24: when a create request has succeeded, the event with the start that was
\* sent begins with the key of the day that was selected: the filter finds it
\* for that day, as the selected day and as a cell of its month.
C24_CreatedEventMatchesDay ==
    [][\A i \in 1..Len(creates) :
           (creates' = Without(creates, i) /\ alert' = EventAddedAlert) =>
               LET day == creates[i].selected
                   created == CalendarEvent(100, Str(creates[i].eventData.start_datetime))
               IN  /\ BeginsWith(created.date, KeyOf(day.y, day.m + 1, day.d))
                   /\ GetEventsForSelectedDate(Array(<<created>>), Array(<<>>),
                                               day).events = <<created>>
                   /\ GetEventsForDate(Array(<<created>>), Array(<<>>), day.y, day.m,
                                       day.d).events = <<created>>]_vars

\* C26: while a create request is awaited no further create request is sent.
C26_NoSecondCreate ==
    [][Len(creates) >= 1 => Len(creates') <= Len(creates)]_vars

\* C27: a step in which a load ends while a load started after it is still
\* awaited leaves loading true.
C27_LoadingUntilLastLoad ==
    [][\A i \in 1..Len(loads) :
           (i < Len(loads) /\ loads' = AfterLoad(i)) => loading']_vars

\* C28: a step in which a create request fails raises the alert and leaves the
\* modal, the title, the loads, loading, the events, the tasks, the selection
\* and the displayed date as they are; a step in which one succeeds clears the
\* title, closes the modal and starts a load.
C28_FailedCreate ==
    [][Len(creates') < Len(creates) =>
           IF alert' = AddFailedAlert
           THEN /\ showEventModal' = showEventModal
                /\ newEventTitle' = newEventTitle
                /\ loads' = loads
                /\ loading' = loading
                /\ events' = events
                /\ tasks' = tasks
                /\ selectedDate' = selectedDate
                /\ currentDate' = currentDate
           ELSE /\ alert' = EventAddedAlert
                /\ newEventTitle' = <<>>
                /\ ~showEventModal'
                /\ Len(loads') = Len(loads) + 1
                /\ loading']_vars

\* A create request has failed: the alert is on the screen, the modal is still
\* open with the title typed, and no load is awaited.
C28_Witness ==
    /\ alert = AddFailedAlert
    /\ showEventModal
    /\ newEventTitle = <<"A">>
    /\ creates = <<>>
    /\ loads = <<>>
    /\ ~loading

\* C29: handleAddEvent sends no request for a title that is empty or blank, or
\* with no day selected; every request sent is for a title that is not blank
\* and a selected day, with the type custom, a start that is the time of the
\* selected date and an end one hour after it.
C29_CreateRequests ==
    LET Blank(title) == \A k \in 1..Len(title) : title[k] = " "
    IN  /\ \A title \in Titles \cup {<<" ", " ">>, <<" ", "A", " ">>},
              selected \in {NoDate, selectedDate} :
               SendsCreate(title, selected) <=> (~Blank(title) /\ selected # NoDate)
        /\ \A i \in 1..Len(creates) :
               LET request == creates[i]
                   start == GetTime(Str(request.eventData.start_datetime), tz)
                   end == GetTime(Str(request.eventData.end_datetime), tz)
                   day == request.selected
               IN  /\ ~Blank(request.eventData.title)
                   /\ day # NoDate
                   /\ request.eventData.event_type = "custom"
                   /\ ~start.nan /\ start.ms = 0
                   /\ start.sec = MakeDay(day.y, day.m, day.d) * 86400 - tz * 3600
                   /\ ~end.nan /\ end.ms = 0
                   /\ end.sec = start.sec + 3600

\* Two hours east of UTC, the request for 2 August 2025 starts at 22:00 UTC of
\* 1 August and ends at 23:00.
C29_Witness ==
    /\ tz = 2
    /\ Len(creates) = 1
    /\ creates[1].selected = [y |-> 2025, m |-> 7, d |-> 2]
    /\ creates[1].eventData.start_datetime
           = DateAug01 \o <<"T", "2", "2", ":", "0", "0", ":", "0", "0", ".", "0", "0", "0", "Z">>
    /\ creates[1].eventData.end_datetime
           = DateAug01 \o <<"T", "2", "3", ":", "0", "0", ":", "0", "0", ".", "0", "0", "0", "Z">>

\* C30: once a day is selected, every step leaves a day selected, and a step
\* that changes the selection is a press of a day of the displayed month: no
\* load, no request and no navigation is part of it.
C30_SelectionNeverCleared ==
    [][/\ selectedDate # NoDate => selectedDate' # NoDate
       /\ selectedDate' # selectedDate =>
              /\ MonthOf(selectedDate') = MonthOf(currentDate)
              /\ selectedDate'.d \in 1..GregorianLength(currentDate.y, currentDate.m)
              /\ currentDate' = currentDate
              /\ loads' = loads
              /\ creates' = creates]_vars

\* A day is still selected after an event was sent for it, another month was
\* displayed and a load has failed.
C30_Witness ==
    /\ selectedDate = [y |-> 2025, m |-> 7, d |-> 2]
    /\ currentDate.m = 8
    /\ logged = ErrorLog
    /\ creates # <<>>

====
